---------------------------- MODULE Spec2Model ----------------------------
(***************************************************************************)
(* Runner3D: the lane-runner component of kaypie9/Surfer as a state        *)
(* machine.  The repository holds the component in two revisions:          *)
(*   "components" : components/Runner3D.tsx  (src/unnamed/part_004)        *)
(*   "src"        : src/components/Runner3D.tsx                            *)
(* Which of the two the '@/components/Runner3D' import resolves to is a    *)
(* build setting, so Init chooses the revision and every handler is        *)
(* modelled per revision.                                                  *)
(*                                                                         *)
(* Units.  Time is performance.now() in integer milliseconds.  Heights     *)
(* and vertical velocity are in hundredths of a world unit (GRAVITY 0.01   *)
(* is 1), lateral positions in thousandths (lane x = -1200, 0, 1200).      *)
(* The scroll axis is measured in cells: an active entity advances one     *)
(* cell per simulated frame, can touch the player only in cell ContactZ    *)
(* and is recycled once it is beyond cell OffZ.  Whether the boxes or      *)
(* spheres really intersect in the contact cell is THREE.js geometry over  *)
(* floating-point positions; it is an input of the frame.                  *)
(***************************************************************************)
EXTENDS Integers, Sequences, FiniteSets, TLC

(* ----- program constants (part_004:104-146, 162) ----- *)
PLAYER_GROUND_Y == 50
JUMP_STRENGTH_BASE == 20
GRAVITY == 1
SLIDE_DURATION_MS == 600
SLIDE_COOLDOWN_MS == 200
COYOTE_MS == 120
JUMP_BUFFER_MS == 120
COMBO_WINDOW_MS == 2500
COMBO_MAX == 5
MAGNET_MS == 10000
BOOST_MS == 6000
SHIELD_MS == 12000
DOUBLE_MS == 8000
RISK_MS == 10000
FLIGHT_MS == 5000
CHAIN_WINDOW_MS == 1200
CHAIN_NEEDED == 3
CHAIN_BOOST_MS == 1600
countdownSeconds == 2
MAX_LIVES == 3

(* ----- bounds of the model ----- *)
(* the display's frame interval in ms, and how many of them performance.now()
   covers *)
StepMs == 1000
(* the frame interval of a faster display *)
FastStepMs == 250
MaxSteps == 8
MaxClock == MaxSteps * StepMs
(* simulated frames per startGame closure *)
MaxT == 3
(* Start / Retry presses *)
MaxRuns == 2
(* keyboard, pointer, touch, pause and visibility events *)
MaxInputs == 3
(* the pools keep this many obstacles and orbs active, where the code keeps 10
   and 12 *)
MaxObs == 2
MaxOrbs == 1
(* powers and crystals that one startGame closure spawns *)
MaxPowers == 2
MaxCrystals == 1
(* simulated frames of a game on a track without obstacles in the way *)
MaxTicks == 600
(* simulated frames of a game on a track of coins *)
MaxCoinFrames == 8
(* frames per game on the track with wings: a flight of FLIGHT_MS and its landing *)
MaxFlightFrames == 8
(* frames per game on the track of obstacles *)
MaxHitFrames == 6
(* frames per game on the track of obstacles and shields *)
MaxShieldFrames == 5
(* frames per game of lane changes *)
MaxLaneFrames == 4
(* POST requests to the leaderboard, and the highest score of a request *)
MaxPosts == 3
MaxScore == 3
(* Escape key events *)
MaxEscapes == 2
(* values of the draw r of spawnPower, in hundredths of [0, 1) *)
DrawSteps == 100

(* the player stands at z = 0: player.position.set(0, PLAYER_GROUND_Y, 0) *)
ContactZ == 0
(* if (o.mesh.position.z > 6) o.active = false, in cells *)
OffZ == 0

Min(a, b) == IF a <= b THEN a ELSE b
Max(a, b) == IF a >= b THEN a ELSE b
Abs(a) == IF a >= 0 THEN a ELSE -a
Sign(a) == IF a > 0 THEN 1 ELSE IF a < 0 THEN -1 ELSE 0

Revisions == {"components", "src"}
PowerKinds == {"magnet", "boost", "shield", "double", "risk", "wings", "heart"}

VARIABLES
  revision,            \* which Runner3D.tsx the build resolves
  frameMs,             \* the display's frame interval in ms
  clock,               \* performance.now()
  \* React state
  running, paused, dead, score, best, lives, countdown, countdownAt, upgJump,
  \* values the dependency arrays saw at the last commit
  livesSeen, runningSeen, upgSeen,
  \* refs
  pausedRef, deadRef, livesRef, startedRef, audioReadyRef, rafRef,
  magnetUntilRef, boostUntilRef, shieldUntilRef, doubleUntilRef,
  riskUntilRef, flyUntilRef, invincibleUntilRef, timeWarpUntilRef,
  comboRef, lastPickupAtRef, chainTimesRef, wasFlyingRef,
  \* the times of the coin pickups of the last CHAIN_WINDOW_MS since the chain
  \* buffer was last cleared
  pickupTimes,
  flyRowsLeftRef, flySpawnCooldownRef, dashCooldownRef,
  \* the closure made by startGame
  listening, closPaused, closDead, closUpgJump, runs,
  \* the browser: when the pending frame callback was requested, whether the
  \* last callback returned at the paused check, input events so far, whether a
  \* touch has begun on the canvas, whether the last callback threw, Escape key
  \* events so far
  rafAt, skipped, inputs, touching, thrown, escapes,
  \* when the pause reached the frame loop: pausedRef.current became true
  pausedAt,
  t, localScore, localDead, lastFrameTime, dt, nextBossAtScore,
  \* the obstacles whose box the player's box intersected in the last frame
  overlap,
  laneIndex, x, y, vy, sliding, slideStartAt, slideEndedAt,
  lastGroundedAt, wasGrounded, jumpBufferUntil, jumpsSinceAir, lastY,
  obstacles, orbs, powers, crystals,
  \* the obstacles of a second play of the same build: same seed, same input
  \* events, same frame times
  twinObstacles,
  \* the leaderboard: the score the sorted set lb:<game> holds for the member,
  \* and the POST requests of that game and member
  stored, posts

uiVars == <<running, paused, dead, score, best, lives, countdown, countdownAt, upgJump>>
seenVars == <<livesSeen, runningSeen, upgSeen>>
flagRefs == <<pausedRef, deadRef, livesRef, startedRef, audioReadyRef, rafRef>>
timerRefs == <<magnetUntilRef, boostUntilRef, shieldUntilRef, doubleUntilRef,
               riskUntilRef, flyUntilRef, invincibleUntilRef, timeWarpUntilRef>>
comboRefs == <<comboRef, lastPickupAtRef, chainTimesRef, pickupTimes>>
flyRefs == <<wasFlyingRef, flyRowsLeftRef, flySpawnCooldownRef>>
loopVars == <<t, localScore, localDead, lastFrameTime, dt, nextBossAtScore, overlap>>
playerVars == <<laneIndex, x, y, vy, sliding, slideStartAt, slideEndedAt,
                lastGroundedAt, wasGrounded, jumpBufferUntil, jumpsSinceAir>>
poolVars == <<obstacles, orbs, powers, crystals, twinObstacles>>
closVars == <<listening, closPaused, closDead, closUpgJump, runs>>
schedVars == <<rafAt, skipped, inputs, touching, thrown, escapes>>

boardVars == <<stored, posts>>

vars == <<revision, frameMs, clock, uiVars, seenVars, flagRefs, timerRefs, comboRefs, flyRefs,
          dashCooldownRef, closVars, schedVars, pausedAt, loopVars, playerVars, lastY,
          poolVars, boardVars>>

(* zscore of a member the sorted set does not hold: null *)
NoScore == -1

(* the POST requests the server handles, at once or one after another *)
Posts == 1..MaxPosts

(* the scores a request body carries *)
Scores == 0..MaxScore

(* lanes = [-1.2, 0, 1.2] *)
lanes(i) == (i - 1) * 1200

(* everything the frame loop simulates: what a pause has to freeze *)
simVars == <<loopVars, playerVars, poolVars>>

(* ------------------------------------------------------------------ *)
(* Entities.  The arrays of startGame only grow (push); a slot is      *)
(* never reused.  got counts how often the frame loop credited the     *)
(* entity (score, effect or upgrade point).                            *)
(* ------------------------------------------------------------------ *)
Entity(zPos) == [active |-> TRUE, z |-> zPos, got |-> 0]
PowerEntity(zPos, k) == [active |-> TRUE, z |-> zPos, got |-> 0, kind |-> k]
OrbEntity(zPos, isSky) == [active |-> TRUE, z |-> zPos, got |-> 0, sky |-> isSky]

ActiveCount(pool) == Cardinality({i \in DOMAIN pool : pool[i].active})

(* a spawn that would put the new entity into the slot of an inactive one *)
pushReuse(pool, e) ==
  IF \E i \in DOMAIN pool : ~pool[i].active
  THEN [pool EXCEPT ![CHOOSE i \in DOMAIN pool : ~pool[i].active] = e]
  ELSE Append(pool, e)

(* obstacles.push({...}), orbs.push({...}), powers.push({...}), crystals.push({...}) *)
push(pool, e) == Append(pool, e)

(* for (let i = 1; i <= 10; i++) spawnObstacle(-i * 12), up to the pool bound *)
PreloadObstacles == [i \in 1..Min(10, MaxObs) |-> Entity(ContactZ - i)]
(* for (let i = 1; i <= 6; i++) spawnCrystal(-i * 22 - 10): each crystal lies
   beyond the obstacle of the same index *)
PreloadCrystals == [i \in 1..Min(6, MaxCrystals) |-> Entity(ContactZ - i - 1)]

NoCountdown == <<>>

InitAt(ms) ==
  /\ revision \in Revisions
  /\ frameMs = ms
  /\ clock = 0
  /\ running = FALSE /\ paused = FALSE /\ dead = FALSE
  /\ score = 0 /\ best = 0 /\ lives = MAX_LIVES
  /\ countdown = NoCountdown /\ countdownAt = 0 /\ upgJump = 0
  /\ livesSeen = MAX_LIVES /\ runningSeen = FALSE /\ upgSeen = 0
  /\ pausedRef = FALSE /\ deadRef = FALSE /\ livesRef = MAX_LIVES
  /\ startedRef = FALSE /\ audioReadyRef = FALSE /\ rafRef = FALSE
  /\ magnetUntilRef = 0 /\ boostUntilRef = 0 /\ shieldUntilRef = 0
  /\ doubleUntilRef = 0 /\ riskUntilRef = 0 /\ flyUntilRef = 0
  /\ invincibleUntilRef = 0 /\ timeWarpUntilRef = 0
  /\ comboRef = 0 /\ lastPickupAtRef = 0 /\ chainTimesRef = <<>>
  /\ pickupTimes = <<>>
  /\ wasFlyingRef = FALSE /\ flyRowsLeftRef = 0 /\ flySpawnCooldownRef = 0
  /\ dashCooldownRef = 0
  /\ listening = FALSE /\ closPaused = FALSE /\ closDead = FALSE
  /\ closUpgJump = 0 /\ runs = 0
  /\ rafAt = 0 /\ skipped = FALSE /\ inputs = 0 /\ touching = FALSE /\ pausedAt = 0
  /\ thrown = FALSE /\ escapes = 0
  /\ stored = NoScore
  /\ posts = [r \in Posts |-> [pc |-> "idle", score |-> 0, prev |-> NoScore, next |-> 0]]
  /\ t = 0 /\ localScore = 0 /\ localDead = FALSE /\ lastFrameTime = 0 /\ dt = 0
  /\ nextBossAtScore = 250 /\ overlap = {}
  /\ laneIndex = 1 /\ x = 0 /\ y = PLAYER_GROUND_Y /\ vy = 0
  /\ sliding = FALSE /\ slideStartAt = 0 /\ slideEndedAt = 0
  /\ lastGroundedAt = 0 /\ wasGrounded = TRUE /\ jumpBufferUntil = 0
  /\ jumpsSinceAir = 0 /\ lastY = 0
  /\ obstacles = <<>> /\ orbs = <<>> /\ powers = <<>> /\ crystals = <<>>
  /\ twinObstacles = <<>>

(* the component after construction, on the display of StepMs *)
Init == InitAt(StepMs)

(* the start of the frame interval that performance.now() lies in *)
IntervalStart == clock - (clock % frameMs)

(* ------------------------------------------------------------------ *)
(* React: a state setter changes the state variable at once; the       *)
(* effects that depend on it run in a later Commit.  rAF callbacks may *)
(* run between a setter and its Commit; user events and timeouts are   *)
(* taken up only when nothing is left to commit.                       *)
(* ------------------------------------------------------------------ *)
CommitPending ==
  \/ lives # livesSeen
  \/ paused # pausedRef
  \/ dead # deadRef
  \/ running # runningSeen
  \/ (revision = "src" /\ upgJump # upgSeen)

(* performance.now() reaches the next frame interval.  The browser runs a
   requested frame callback once in every interval and React commits the state
   updates of an event within the interval; time is followed while a countdown
   or a game is on *)
Tick ==
  /\ IntervalStart + frameMs <= MaxClock
  /\ (running \/ countdown # NoCountdown)
  /\ ~CommitPending
  /\ rafRef => rafAt = IntervalStart
  /\ clock' = IntervalStart + frameMs
  /\ UNCHANGED <<boardVars, revision, frameMs, uiVars, seenVars, flagRefs, timerRefs, comboRefs, flyRefs,
                 dashCooldownRef, closVars, schedVars, pausedAt, loopVars, playerVars,
                 lastY, poolVars>>

(* performance.now() moves within a frame interval, after the interval's frame
   callback: to COYOTE_MS - 1 after its start, then ms by ms to COYOTE_MS + 1.
   The time within an interval is followed while the player is in the air *)
TickFine ==
  /\ running
  /\ y > PLAYER_GROUND_Y
  /\ ~CommitPending
  /\ rafRef => rafAt = IntervalStart
  /\ clock - IntervalStart \in {0, COYOTE_MS - 1, COYOTE_MS}
  /\ clock' = IF clock = IntervalStart THEN clock + COYOTE_MS - 1 ELSE clock + 1
  /\ UNCHANGED <<boardVars, revision, frameMs, uiVars, seenVars, flagRefs, timerRefs, comboRefs, flyRefs,
                 dashCooldownRef, closVars, schedVars, pausedAt, loopVars, playerVars,
                 lastY, poolVars>>

(* the body of startGame: a fresh closure (part_004:405-1646) *)
startGame ==
  /\ runs' = runs + 1
  /\ startedRef' = (revision = "components")
  /\ listening' = TRUE
  /\ closUpgJump' = upgJump
  /\ rafRef' = TRUE
  /\ rafAt' = clock /\ skipped' = FALSE /\ inputs' = inputs /\ touching' = FALSE
  /\ thrown' = FALSE /\ escapes' = escapes
  /\ t' = 0 /\ localScore' = 0 /\ localDead' = FALSE
  /\ lastFrameTime' = clock /\ dt' = 0 /\ nextBossAtScore' = 250 /\ overlap' = {}
  /\ laneIndex' = 1 /\ x' = 0 /\ y' = PLAYER_GROUND_Y /\ vy' = 0
  /\ sliding' = FALSE /\ slideStartAt' = 0 /\ slideEndedAt' = 0
  /\ lastGroundedAt' = 0 /\ wasGrounded' = TRUE /\ jumpBufferUntil' = 0
  /\ jumpsSinceAir' = 0 /\ lastY' = 0
  /\ obstacles' = PreloadObstacles /\ orbs' = <<>> /\ powers' = <<>>
  /\ crystals' = PreloadCrystals
  /\ twinObstacles' = PreloadObstacles
  /\ magnetUntilRef' = 0 /\ boostUntilRef' = 0 /\ shieldUntilRef' = 0
  /\ doubleUntilRef' = 0
  /\ comboRef' = 0 /\ lastPickupAtRef' = 0
  /\ UNCHANGED <<riskUntilRef, flyUntilRef, invincibleUntilRef, timeWarpUntilRef,
                 chainTimesRef, pickupTimes, flyRefs, dashCooldownRef>>

(* cleanupRef.current(): the loop and the listeners go (part_004:1648-1659) *)
cleanup ==
  /\ startedRef' = FALSE
  /\ listening' = FALSE
  /\ rafRef' = FALSE
  /\ UNCHANGED <<runs, closUpgJump, schedVars, loopVars, playerVars, lastY, poolVars,
                 timerRefs, comboRefs, flyRefs, dashCooldownRef>>

NoRunEffect ==
  UNCHANGED <<startedRef, listening, rafRef, runs, closUpgJump, schedVars, loopVars,
              playerVars, lastY, poolVars, timerRefs, comboRefs, flyRefs, dashCooldownRef>>

(* useEffect(..., [running]) of part_004:1663-1667; startGame returns at once
   when startedRef.current is set *)
runEffect ==
  IF running = runningSeen THEN NoRunEffect
  ELSE IF running
       THEN IF startedRef THEN NoRunEffect ELSE startGame
       ELSE cleanup

(* useEffect(..., [running, startGame]) of src/components/Runner3D.tsx:1188-1192:
   startGame is made anew whenever upg.jump changes, so the effect also runs
   then: cleanup of the running game, and a new startGame *)
runEffectSrc ==
  IF running = runningSeen /\ upgJump = upgSeen THEN NoRunEffect
  ELSE IF running THEN startGame
       ELSE cleanup

(* one React commit: the ref-mirroring effects and the run effect *)
Commit ==
  /\ CommitPending
  /\ pausedRef' = paused
  /\ deadRef' = dead
  /\ livesRef' = IF lives # livesSeen THEN lives ELSE livesRef
  /\ livesSeen' = lives
  /\ runningSeen' = running
  /\ upgSeen' = upgJump
  /\ pausedAt' = IF paused /\ ~pausedRef THEN clock ELSE pausedAt
  /\ closPaused' = IF revision = "src" /\ upgJump # upgSeen THEN paused ELSE closPaused
  /\ closDead' = IF revision = "src" /\ upgJump # upgSeen THEN dead ELSE closDead
  /\ IF revision = "src" THEN runEffectSrc ELSE runEffect
  /\ UNCHANGED <<boardVars, revision, frameMs, clock, uiVars, audioReadyRef>>

(* ------------------------------------------------------------------ *)
(* Start, Retry and the countdown                                      *)
(* ------------------------------------------------------------------ *)
gameVarsUnchanged ==
  UNCHANGED <<closVars, schedVars, pausedAt, loopVars, playerVars, lastY, poolVars,
              comboRefs, flyRefs, dashCooldownRef>>

(* the Start chip is rendered when !(running || paused), the title screen when
   showTitle && !running && !dead && countdown === null; showTitle is true exactly
   until the first handleStart, as audioReadyRef is false until then *)
StartVisible ==
  \/ (~running /\ ~paused)
  \/ (~audioReadyRef /\ ~running /\ ~dead /\ countdown = NoCountdown)

(* handleStart of part_004:1670-1730: lives and the two timers are reset only
   inside if (!audioReadyRef.current) *)
handleStart ==
  /\ revision = "components"
  /\ ~CommitPending
  /\ StartVisible
  /\ runs < MaxRuns
  /\ lives' = IF audioReadyRef THEN lives ELSE MAX_LIVES
  /\ livesRef' = IF audioReadyRef THEN livesRef ELSE MAX_LIVES
  /\ invincibleUntilRef' = IF audioReadyRef THEN invincibleUntilRef ELSE 0
  /\ flyUntilRef' = IF audioReadyRef THEN flyUntilRef ELSE 0
  /\ audioReadyRef' = TRUE
  /\ dead' = FALSE /\ score' = 0 /\ running' = FALSE /\ paused' = FALSE
  /\ countdown' = <<countdownSeconds>> /\ countdownAt' = clock
  /\ UNCHANGED <<boardVars, revision, frameMs, clock, best, upgJump, seenVars, pausedRef, deadRef,
                 startedRef, rafRef, magnetUntilRef, boostUntilRef, shieldUntilRef,
                 doubleUntilRef, riskUntilRef, timeWarpUntilRef>>
  /\ gameVarsUnchanged

(* handleRetry of part_004:1732-1756 (the Replay button of the game-over panel) *)
handleRetry ==
  /\ revision = "components"
  /\ ~CommitPending
  /\ dead
  /\ runs < MaxRuns
  /\ dead' = FALSE /\ score' = 0 /\ running' = FALSE /\ paused' = FALSE
  /\ countdown' = <<countdownSeconds>> /\ countdownAt' = clock
  /\ lives' = MAX_LIVES /\ livesRef' = MAX_LIVES
  /\ invincibleUntilRef' = 0 /\ flyUntilRef' = 0
  /\ magnetUntilRef' = 0 /\ boostUntilRef' = 0 /\ shieldUntilRef' = 0
  /\ doubleUntilRef' = 0 /\ riskUntilRef' = 0
  /\ UNCHANGED <<boardVars, revision, frameMs, clock, best, upgJump, seenVars, pausedRef, deadRef,
                 startedRef, audioReadyRef, rafRef, timeWarpUntilRef>>
  /\ gameVarsUnchanged

(* src/components/Runner3D.tsx: the Start chip when !(running || paused), the
   Play overlay when !running && !dead && countdown === null *)
StartVisibleSrc ==
  \/ (~running /\ ~paused)
  \/ (~running /\ ~dead /\ countdown = NoCountdown)

(* handleStart and handleRetry of src/components/Runner3D.tsx:1196-1203 have the
   same body *)
restartSrc ==
  /\ revision = "src"
  /\ ~CommitPending
  /\ runs < MaxRuns
  /\ dead' = FALSE /\ score' = 0 /\ running' = FALSE /\ paused' = FALSE
  /\ countdown' = <<countdownSeconds>> /\ countdownAt' = clock
  /\ UNCHANGED <<boardVars, revision, frameMs, clock, best, lives, upgJump, seenVars, flagRefs, timerRefs>>
  /\ gameVarsUnchanged

handleStartSrc ==
  /\ StartVisibleSrc
  /\ restartSrc

(* the Retry button of the game-over panel *)
handleRetrySrc ==
  /\ dead
  /\ restartSrc

(* setTimeout(() => setCountdown(v => (v ?? 1) - 1), 1000) *)
countdownTimeout ==
  /\ ~CommitPending
  /\ countdown # NoCountdown
  /\ countdown[1] > 0
  /\ clock >= countdownAt + 1000
  /\ countdown' = <<countdown[1] - 1>>
  /\ countdownAt' = clock
  /\ UNCHANGED <<boardVars, revision, frameMs, clock, running, paused, dead, score, best, lives, upgJump,
                 seenVars, flagRefs, timerRefs>>
  /\ gameVarsUnchanged

(* the countdown effect at 0 (part_004:356-366) *)
countdownEffect ==
  /\ ~CommitPending
  /\ countdown = <<0>>
  /\ countdown' = NoCountdown
  /\ paused' = FALSE
  /\ running' = TRUE
  /\ UNCHANGED <<boardVars, revision, frameMs, clock, dead, score, best, lives, countdownAt, upgJump,
                 seenVars, flagRefs, timerRefs>>
  /\ gameVarsUnchanged

(* ------------------------------------------------------------------ *)
(* Pause controls outside the game closure                             *)
(* ------------------------------------------------------------------ *)
setPausedTo(v) ==
  /\ inputs < MaxInputs
  /\ paused' = v
  /\ inputs' = inputs + 1
  /\ UNCHANGED <<boardVars, revision, frameMs, clock, running, dead, score, best, lives, countdown,
                 countdownAt, upgJump, seenVars, flagRefs, timerRefs>>
  /\ UNCHANGED <<closVars, rafAt, skipped, thrown, escapes, touching, pausedAt, loopVars, playerVars,
                 lastY, poolVars, comboRefs, flyRefs, dashCooldownRef>>

(* the Pause / Resume chip: onClick={() => setPaused(p => !p)}, rendered when
   running || paused *)
pauseChip ==
  /\ ~CommitPending
  /\ (running \/ paused)
  /\ setPausedTo(~paused)

(* the Resume button of the pause overlay: setPaused(false) *)
resumeButton ==
  /\ ~CommitPending
  /\ paused
  /\ setPausedTo(FALSE)

(* visibilitychange with document.hidden (part_004:369-375); window blur in
   src/components/Runner3D.tsx:288-292 *)
onVis ==
  /\ ~CommitPending
  /\ ~paused
  /\ setPausedTo(TRUE)

(* ------------------------------------------------------------------ *)
(* Input handlers registered by startGame                              *)
(* ------------------------------------------------------------------ *)
(* const [assist, setAssist] = useState(false); the settings drawer that could
   change it is not rendered (SHOW_SETTINGS = false) *)
assist == FALSE

(* the first line of onKey and onPointer: part_004:991 reads the refs,
   src/components/Runner3D.tsx:735 the paused and dead that startGame captured *)
InputIgnored ==
  IF revision = "src" THEN closDead \/ closPaused ELSE deadRef \/ pausedRef

(* const hasDouble = () => performance.now() < doubleUntilRef.current *)
hasDouble == clock < doubleUntilRef

(* const grounded = y <= PLAYER_GROUND_Y + 0.0001 *)
grounded == y <= PLAYER_GROUND_Y

(* a coyote window that is open at the bound as well as below it and one ms
   beyond *)
withinCoyoteWide ==
  clock - lastGroundedAt <= (IF assist THEN COYOTE_MS + 101 ELSE COYOTE_MS + 1)

(* now - lastGroundedAt <= (assist ? COYOTE_MS + 100 : COYOTE_MS) *)
withinCoyote ==
  clock - lastGroundedAt <= (IF assist THEN COYOTE_MS + 100 ELSE COYOTE_MS)

(* hasDouble() && jumpsSinceAir < 1 *)
canDouble == hasDouble /\ jumpsSinceAir < 1

(* vy = JUMP_STRENGTH_BASE * speedScale * jumpUp with jumpUp = 1 + upg.jump * 0.05,
   upg as captured by the closure; speedScale = 1 + min(0.3, speed * 0.02) lies
   between 1.005 and 1.3 and is not resolved by the height grid *)
JumpImpulse == JUMP_STRENGTH_BASE + closUpgJump

inputFrame ==
  /\ inputs' = inputs + 1
  /\ UNCHANGED <<boardVars, revision, frameMs, clock, seenVars, flagRefs, timerRefs, comboRefs, flyRefs,
                 closVars, rafAt, skipped, thrown, escapes, touching, pausedAt, loopVars, poolVars>>

(* ' ', ArrowUp, w *)
onKeyJump ==
  /\ listening /\ ~CommitPending /\ inputs < MaxInputs
  /\ IF InputIgnored THEN UNCHANGED vars
     ELSE LET ok == grounded \/ withinCoyote \/ canDouble
          IN /\ jumpBufferUntil' = IF ok THEN 0 ELSE clock + JUMP_BUFFER_MS
             /\ sliding' = FALSE
             /\ slideEndedAt' = IF sliding THEN clock ELSE slideEndedAt
             /\ vy' = IF ok THEN JumpImpulse ELSE vy
             /\ jumpsSinceAir' = IF ok /\ ~grounded /\ ~withinCoyote
                                 THEN jumpsSinceAir + 1 ELSE jumpsSinceAir
             /\ UNCHANGED <<laneIndex, x, y, slideStartAt, lastGroundedAt, wasGrounded,
                            lastY, dashCooldownRef, uiVars>>
             /\ inputFrame

(* Shift: the dash *)
onKeyDash ==
  /\ listening /\ ~CommitPending /\ inputs < MaxInputs
  /\ IF InputIgnored \/ ~(clock > dashCooldownRef) THEN UNCHANGED vars
     ELSE /\ x' = lanes(laneIndex)
          /\ dashCooldownRef' = clock + 1200
          /\ UNCHANGED <<laneIndex, y, vy, sliding, slideStartAt, slideEndedAt,
                         lastGroundedAt, wasGrounded, jumpBufferUntil, jumpsSinceAir,
                         lastY, uiVars>>
          /\ inputFrame

setLane(target) ==
  /\ laneIndex' = target
  /\ UNCHANGED <<x, y, vy, sliding, slideStartAt, slideEndedAt, lastGroundedAt,
                 wasGrounded, jumpBufferUntil, jumpsSinceAir, lastY, dashCooldownRef,
                 uiVars>>
  /\ inputFrame

(* ArrowLeft, a *)
onKeyLeft ==
  /\ listening /\ ~CommitPending /\ inputs < MaxInputs
  /\ IF InputIgnored THEN UNCHANGED vars ELSE setLane(Max(0, laneIndex - 1))

(* ArrowRight, d *)
onKeyRight ==
  /\ listening /\ ~CommitPending /\ inputs < MaxInputs
  /\ IF InputIgnored THEN UNCHANGED vars ELSE setLane(Min(2, laneIndex + 1))

(* beginSlide: sliding = true; slideStartAt = performance.now() *)
beginSlide ==
  /\ sliding' = TRUE
  /\ slideStartAt' = clock
  /\ slideEndedAt' = slideEndedAt

(* endSlideNow: sliding = false; slideEndedAt = performance.now() *)
endSlideNow ==
  /\ sliding' = FALSE
  /\ slideEndedAt' = clock
  /\ slideStartAt' = slideStartAt

(* ArrowDown, s: vy = Math.min(vy, 0); beginSlide() *)
onKeySlide ==
  /\ listening /\ ~CommitPending /\ inputs < MaxInputs
  /\ IF InputIgnored THEN UNCHANGED vars
     ELSE /\ vy' = Min(vy, 0)
          /\ beginSlide
          /\ UNCHANGED <<laneIndex, x, y, lastGroundedAt, wasGrounded, jumpBufferUntil,
                         jumpsSinceAir, lastY, dashCooldownRef, uiVars>>
          /\ inputFrame

(* Escape: setPaused(p => !p), behind the same first line of onKey *)
onKeyEscape ==
  /\ listening /\ ~CommitPending /\ inputs < MaxInputs /\ escapes < MaxEscapes
  /\ escapes' = escapes + 1
  /\ IF InputIgnored
     THEN UNCHANGED <<uiVars, playerVars, lastY, dashCooldownRef, inputs, touching>>
     ELSE /\ paused' = ~paused
          /\ inputs' = inputs + 1
          /\ UNCHANGED <<running, dead, score, best, lives, countdown, countdownAt,
                         upgJump, playerVars, lastY, dashCooldownRef, touching>>
  /\ UNCHANGED <<boardVars, revision, frameMs, clock, seenVars, flagRefs, timerRefs, comboRefs, flyRefs,
                 closVars, rafAt, skipped, thrown, pausedAt, loopVars, poolVars>>

(* pointerdown: the third of the canvas that was hit *)
onPointer ==
  /\ listening /\ ~CommitPending /\ inputs < MaxInputs
  /\ \E zone \in 0..2 :
       IF InputIgnored THEN UNCHANGED vars ELSE setLane(zone)

TouchYs == {0, 40}

(* touchstart: lastY = e.touches[0].clientY *)
onTouchStart ==
  /\ listening /\ ~CommitPending /\ inputs < MaxInputs
  /\ \E cy \in TouchYs :
       /\ lastY' = cy
       /\ touching' = TRUE
       /\ inputs' = inputs + 1
       /\ UNCHANGED <<playerVars, dashCooldownRef, uiVars>>
       /\ UNCHANGED <<boardVars, revision, frameMs, clock, seenVars, flagRefs, timerRefs, comboRefs, flyRefs,
                      closVars, rafAt, skipped, thrown, escapes, pausedAt, loopVars, poolVars>>

(* touchmove, which the browser sends for a touch that began on the canvas:
   if (dy > 32) { if (sliding) endSlideNow(); else beginSlide(); } *)
onTouchMove ==
  /\ listening /\ ~CommitPending /\ inputs < MaxInputs
  /\ touching
  /\ \E cy \in TouchYs :
       IF cy - lastY > 32
       THEN /\ IF sliding THEN endSlideNow ELSE beginSlide
            /\ UNCHANGED <<laneIndex, x, y, vy, lastGroundedAt, wasGrounded,
                           jumpBufferUntil, jumpsSinceAir, lastY, dashCooldownRef, uiVars>>
            /\ inputFrame
       ELSE UNCHANGED vars

(* ------------------------------------------------------------------ *)
(* The frame loop: pieces of animate                                   *)
(* ------------------------------------------------------------------ *)
(* o.mesh.position.z += scrollSpeed, for the active entities *)
Advance(pool) ==
  [i \in DOMAIN pool |-> IF pool[i].active THEN [pool[i] EXCEPT !.z = @ + 1] ELSE pool[i]]

(* if (o.mesh.position.z > 6) { o.active = false; scene.remove(o.mesh); } *)
Cull(pool) ==
  [i \in DOMAIN pool |->
     IF pool[i].active /\ pool[i].z > OffZ THEN [pool[i] EXCEPT !.active = FALSE]
     ELSE pool[i]]

(* the entities of S are picked up: active = false, and the pickup is credited *)
Take(pool, S) ==
  [i \in DOMAIN pool |->
     IF i \in S THEN [pool[i] EXCEPT !.active = FALSE, !.got = @ + 1] ELSE pool[i]]

(* the active entities that this frame moves into the player's cell *)
Reach(pool) == {i \in DOMAIN pool : pool[i].active /\ pool[i].z + 1 = ContactZ}

(* if (obstacles.filter(o => o.active).length < 10) spawnObstacle(nextBase - 10 -
   Math.random() * (9 - 4 * diffFactor())), or applyPattern at nextBase - 9 -
   Math.random() * (8 - 4 * diffFactor()): the random part puts the obstacle gap
   cells further away.  src/components/Runner3D.tsx draws it with rand() *)
SpawnMore(pool, gap) ==
  IF ActiveCount(pool) < Min(10, MaxObs)
  THEN push(pool, Entity(ContactZ - 1 - gap)) ELSE pool

(* the values of gap *)
SpawnGaps == {0, 1}

(* lane tweening: step = sign(dx) * min(|dx|, maxStep) with maxStep = 6.0 * dtSec,
   then the snap when less than maxStep is left *)
LaneTween(px, targetX, dtMs) ==
  LET dx == targetX - px
      maxStep == 6 * dtMs
      stepped == px + Sign(dx) * Min(Abs(dx), maxStep)
  IN IF Abs(targetX - stepped) < maxStep THEN targetX ELSE stepped

(* slideDur = SLIDE_DURATION_MS * (1 + upg.slide * 0.06) * comboBoost; upg.slide
   stays 0, comboBoost is 1.2 from combo 2 on and exists in part_004 only *)
slideDur ==
  IF revision = "components" /\ comboRef >= 2
  THEN (SLIDE_DURATION_MS * 12) \div 10 ELSE SLIDE_DURATION_MS

(* jump / gravity / slide (part_004:1310-1347, src/components/Runner3D.tsx:936-965) *)
Physics(inSky) ==
  IF inSky
  THEN [y |-> y + ((250 - y) * 18) \div 100, vy |-> 0, sliding |-> FALSE,
        slideEndedAt |-> slideEndedAt, lastGroundedAt |-> lastGroundedAt,
        wasGrounded |-> TRUE, jumpBufferUntil |-> jumpBufferUntil,
        jumpsSinceAir |-> jumpsSinceAir]
  ELSE
  LET landed == grounded /\ ~wasGrounded
      buffered == landed /\ clock <= jumpBufferUntil
      jb1 == IF buffered THEN 0 ELSE jumpBufferUntil
      vy1 == IF buffered THEN JumpImpulse ELSE vy
      steady == grounded /\ jb1 # 0
      vy2 == IF steady THEN JumpImpulse ELSE vy1
      vy3 == IF sliding THEN 0 ELSE vy2 - GRAVITY
      y3 == IF sliding THEN PLAYER_GROUND_Y ELSE y + vy3
      slideOver == sliding /\ clock - slideStartAt >= slideDur
  IN [y |-> IF y3 < PLAYER_GROUND_Y THEN PLAYER_GROUND_Y ELSE y3,
      vy |-> IF y3 < PLAYER_GROUND_Y THEN 0 ELSE vy3,
      sliding |-> sliding /\ ~slideOver,
      slideEndedAt |-> IF slideOver THEN clock ELSE slideEndedAt,
      lastGroundedAt |-> IF grounded THEN clock ELSE lastGroundedAt,
      wasGrounded |-> grounded,
      jumpBufferUntil |-> IF steady THEN 0 ELSE jb1,
      jumpsSinceAir |-> IF landed THEN 0 ELSE jumpsSinceAir]

(* a baseline that rounds up *)
BaselineCeil(ticks) == (ticks + 19) \div 20

(* Math.floor(t * 0.05): for every t up to 2 * 10^6 the double product t * 0.05 has
   the floor of t / 20 *)
Baseline(ticks) == ticks \div 20

(* const add = Math.round(10 * comboMult * riskMult) with comboMult = 1 + combo * 0.2 *)
OrbScore(combo, riskMult) == (10 + 2 * Min(COMBO_MAX, combo)) * riskMult

(* one orb pickup of part_004:1436-1458: the combo goes up by one, whatever the
   time since the previous pickup *)
EatOne(st) ==
  LET c == Min(COMBO_MAX, st.combo + 1)
  IN [st EXCEPT !.combo = c, !.last = clock,
                !.score = @ + OrbScore(c, IF clock < riskUntilRef THEN 2 ELSE 1)]

(* one orb pickup of src/components/Runner3D.tsx:1112-1131: combo window, and the
   chain boost after CHAIN_NEEDED pickups within CHAIN_WINDOW_MS *)
EatOneSrc(st) ==
  LET c == Min(COMBO_MAX,
               IF clock - st.last <= COMBO_WINDOW_MS THEN st.combo + 1 ELSE 1)
      pushed == Append(st.chain, clock)
      kept == SelectSeq(pushed, LAMBDA ts : clock - ts <= CHAIN_WINDOW_MS)
      full == Len(kept) >= CHAIN_NEEDED
  IN [st EXCEPT !.combo = c, !.last = clock, !.score = @ + OrbScore(c, 1),
                !.chain = IF full THEN <<>> ELSE kept,
                !.boost = IF full THEN Max(@, clock + CHAIN_BOOST_MS) ELSE @]

(* the pickup times after n pickups at now, those of the last CHAIN_WINDOW_MS *)
RECURSIVE Picked(_, _)
Picked(times, n) ==
  IF n = 0 THEN times
  ELSE Picked(SelectSeq(Append(times, clock), LAMBDA ts : clock - ts <= CHAIN_WINDOW_MS),
              n - 1)

(* the orb loop over the n orbs that are eaten in this frame *)
RECURSIVE EatOrbs(_, _)
EatOrbs(st, n) ==
  IF n = 0 THEN st
  ELSE EatOrbs(IF revision = "src" THEN EatOneSrc(st) ELSE EatOne(st), n - 1)

(* a hit that leaves the invincibility window closed *)
HurtNoWindow(st, nextLives) ==
  [st EXCEPT !.lives = nextLives, !.livesRef = nextLives]

(* setLives(nextLives); livesRef.current = nextLives;
   invincibleUntilRef.current = now + 1000 *)
Hurt(st, nextLives) ==
  [st EXCEPT !.lives = nextLives, !.livesRef = nextLives, !.inv = clock + 1000]

(* a life loss without the floor at 0 *)
NextLivesRaw(l) == l - 1

(* const nextLives = Math.max(0, livesRef.current - 1) *)
NextLives(l) == Max(0, l - 1)

(* a shield that stays up but leaves the obstacle in place *)
AbsorbKeep(st, i) == [st EXCEPT !.shield = clock + 400]

(* the shield branch: o.active = false; scene.remove(o.mesh);
   shieldUntilRef.current = now + 400 *)
Absorb(st, i) == [st EXCEPT !.obs[i].active = FALSE, !.shield = clock + 400]

(* the collision loop of part_004:1543-1580 over the obstacles in index order;
   hit is the set of obstacles whose box the player's box intersects: without
   one the loop changes nothing *)
RECURSIVE Collide(_, _, _)
Collide(i, hit, st) ==
  IF i > Len(st.obs) \/ hit = {} THEN st
  ELSE IF ~(st.obs[i].active /\ i \in hit) THEN Collide(i + 1, hit, st)
  ELSE IF st.sky \/ clock < st.inv THEN Collide(i + 1, hit, st)
  ELSE IF clock < st.shield
  THEN Collide(i + 1, hit, Absorb(st, i))
  ELSE LET nextLives == NextLives(st.livesRef)
           lost == Hurt(st, nextLives)
       IN IF nextLives <= 0 THEN [lost EXCEPT !.dead = TRUE]
          ELSE Collide(i + 1, hit, [lost EXCEPT !.warp = Max(@, clock + 220)])

(* the collision loop of src/components/Runner3D.tsx:1091-1108: no lives *)
RECURSIVE CollideSrc(_, _, _)
CollideSrc(i, hit, st) ==
  IF i > Len(st.obs) \/ hit = {} THEN st
  ELSE IF ~(st.obs[i].active /\ i \in hit) THEN CollideSrc(i + 1, hit, st)
  ELSE IF clock < st.shield
  THEN CollideSrc(i + 1, hit, Absorb(st, i))
  ELSE [st EXCEPT !.dead = TRUE]

(* a pickup that would grant the duration counted from time 0 *)
RefreshFromZero(prev, now, dur) == dur

(* a power pickup: xUntilRef.current = now + X_MS *)
Refresh(prev, now, dur) == now + dur

(* the until of one effect after the power touches of this frame *)
Touched(pool, touch, k) == \E i \in touch : pool[i].kind = k
AfterTouch(pool, touch, k, prev, dur) ==
  IF Touched(pool, touch, k) THEN Refresh(prev, clock, dur) ELSE prev

(* setLives(v => Math.min(3, v + 1)), once per heart *)
RECURSIVE Hearts(_, _)
Hearts(v, n) == IF n = 0 THEN v ELSE Hearts(Min(MAX_LIVES, v + 1), n - 1)

(* const r = rand(): the draw of spawnPower, in hundredths *)
Draws == 0..(DrawSteps - 1)

(* spawnPower of src/components/Runner3D.tsx:687-698: the kind for a draw r *)
spawnPowerSrc(r) ==
  IF r < 32 THEN "magnet" ELSE IF r < 62 THEN "boost"
  ELSE IF r < 86 THEN "shield" ELSE "double"

(* the kinds spawnPower of src/components/Runner3D.tsx:690 draws from *)
SrcKinds == {spawnPowerSrc(r) : r \in Draws}

(* part_004:931: const FORCE_WINGS = true; // set to false when done testing *)
FORCE_WINGS == TRUE

(* spawnPower of part_004:927-957: the kind for a draw r *)
spawnPower(r) ==
  IF FORCE_WINGS THEN "wings"
  ELSE IF r < 26 THEN "magnet" ELSE IF r < 52 THEN "boost"
  ELSE IF r < 74 THEN "shield" ELSE IF r < 89 THEN "double"
  ELSE IF r < 82 THEN "wings" ELSE IF r < 98 THEN "heart" ELSE "risk"

(* the kinds spawnPower of part_004 draws from *)
SpawnKinds == {spawnPower(r) : r \in Draws}

(* if (pausedRef.current) { rafRef.current = requestAnimationFrame(animate);
   renderer.render(scene, camera); return; } *)
pausedCallback ==
  /\ rafAt' = clock
  /\ skipped' = TRUE
  /\ thrown' = FALSE /\ escapes' = escapes
  /\ UNCHANGED <<boardVars, revision, frameMs, clock, uiVars, seenVars, flagRefs, timerRefs, comboRefs,
                 flyRefs, dashCooldownRef, closVars, inputs, touching, pausedAt,
                 loopVars, playerVars, lastY, poolVars>>

(* what a frame leaves alone in both revisions *)
frameKeeps ==
  UNCHANGED <<boardVars, revision, frameMs, clock, countdown, countdownAt, seenVars, pausedRef,
              deadRef, startedRef, audioReadyRef, dashCooldownRef, closVars, inputs,
              touching, pausedAt, laneIndex, slideStartAt, lastY>>

(* the draw throws in part_004: renderer.render(scene, camera) at 1625 is inside
   try, the catch of 1638-1642 logs, sets paused and requests the next callback;
   what the frame did before the draw stays done *)
frameCatch(died, finalScore) ==
  /\ localDead' = died
  /\ localScore' = finalScore
  /\ rafRef' = TRUE
  /\ rafAt' = clock
  /\ skipped' = FALSE
  /\ thrown' = TRUE /\ escapes' = escapes
  /\ paused' = TRUE
  /\ UNCHANGED <<dead, running, best, score>>

(* the draw throws in src/components/Runner3D.tsx:1164, where animate has no try:
   the exception leaves the callback before the next one is requested *)
frameEscape(died, finalScore) ==
  /\ localDead' = died
  /\ localScore' = finalScore
  /\ rafRef' = FALSE
  /\ rafAt' = clock
  /\ skipped' = FALSE
  /\ thrown' = TRUE /\ escapes' = escapes
  /\ paused' = paused
  /\ UNCHANGED <<dead, running, best, score>>

(* an end of frame that stops the loop at death without reporting the score *)
frameEndSilent(died, finalScore) ==
  /\ localDead' = died
  /\ localScore' = finalScore
  /\ rafRef' = ~died
  /\ rafAt' = clock
  /\ skipped' = FALSE
  /\ thrown' = FALSE /\ escapes' = escapes
  /\ paused' = paused
  /\ dead' = IF died THEN TRUE ELSE dead
  /\ running' = IF died THEN FALSE ELSE running
  /\ best' = best
  /\ score' = score

(* the end of a frame: the next callback is requested, or the death is reported *)
frameEnd(died, finalScore) ==
  /\ localDead' = died
  /\ localScore' = finalScore
  /\ rafRef' = ~died
  /\ rafAt' = clock
  /\ skipped' = FALSE
  /\ thrown' = FALSE /\ escapes' = escapes
  /\ paused' = paused
  /\ dead' = IF died THEN TRUE ELSE dead
  /\ running' = IF died THEN FALSE ELSE running
  /\ best' = IF died THEN Max(best, finalScore) ELSE best
  /\ score' = IF died THEN finalScore ELSE score

(* one callback of part_004 past the paused check, 1110-1642: the simulated
   frame, whose draw at the end throws or not *)
frameKind(hit, eat, touch, cry, near, draw, gap, threw, kind) ==
  LET inSky == clock < flyUntilRef
      landing == ~inSky /\ wasFlyingRef
      rows0 == IF landing THEN 0 ELSE flyRowsLeftRef
      cd0 == IF landing THEN 0 ELSE flySpawnCooldownRef
      orbs0 == IF landing
               THEN [i \in DOMAIN orbs |->
                       IF orbs[i].sky THEN [orbs[i] EXCEPT !.active = FALSE] ELSE orbs[i]]
               ELSE orbs
      mag1 == IF ~inSky /\ comboRef >= 3 THEN Max(magnetUntilRef, clock + 180)
              ELSE magnetUntilRef
      warp1 == IF comboRef >= 4 THEN Max(timeWarpUntilRef, clock + 120)
               ELSE timeWarpUntilRef
      ph == Physics(inSky)
      obs1 == Cull(Advance(obstacles))
      obs2 == SpawnMore(obs1, gap)
      ate == EatOrbs([combo |-> comboRef, last |-> lastPickupAtRef, score |-> localScore,
                      chain |-> chainTimesRef, boost |-> boostUntilRef],
                     Cardinality(eat))
      orbs1 == Cull(Take(Advance(orbs0), eat))
      orbs2 == IF ActiveCount(orbs1) < Min(12, MaxOrbs)
               THEN push(orbs1, OrbEntity(ContactZ - 1, FALSE)) ELSE orbs1
      skyRow == inSky /\ clock < flyUntilRef /\ rows0 > 0 /\ clock >= cd0
      orbs3 == IF skyRow THEN push(orbs2, OrbEntity(ContactZ - 1, TRUE)) ELSE orbs2
      rows1 == IF skyRow THEN rows0 - 1 ELSE rows0
      cd1 == IF skyRow THEN clock + 150 ELSE cd0
      pow1 == Cull(Advance(powers))
      pow2 == IF ActiveCount(pow1) < 4 /\ draw
              THEN push(pow1, PowerEntity(ContactZ - 1, kind)) ELSE pow1
      warp2 == IF near /\ clock > warp1 THEN clock + 700 ELSE warp1
      col == Collide(1, hit, [obs |-> obs2, sky |-> inSky, inv |-> invincibleUntilRef,
                              shield |-> shieldUntilRef, lives |-> lives,
                              livesRef |-> livesRef, warp |-> warp2, dead |-> FALSE])
      wings == Touched(pow2, touch, "wings")
      score1 == IF ~col.dead THEN Max(ate.score, Baseline(t + 1)) ELSE ate.score
      boss == score1 >= nextBossAtScore
  IN /\ t' = t + 1
     /\ overlap' = hit
     /\ lastFrameTime' = clock
     /\ dt' = Max(1, clock - lastFrameTime)
     /\ wasFlyingRef' = inSky
     /\ x' = LaneTween(x, lanes(laneIndex), Max(1, clock - lastFrameTime))
     /\ y' = ph.y /\ vy' = ph.vy /\ sliding' = ph.sliding
     /\ slideEndedAt' = ph.slideEndedAt
     /\ lastGroundedAt' = ph.lastGroundedAt
     /\ wasGrounded' = ph.wasGrounded
     /\ jumpBufferUntil' = ph.jumpBufferUntil
     /\ jumpsSinceAir' = ph.jumpsSinceAir
     /\ obstacles' = IF boss THEN push(col.obs, Entity(ContactZ - 1)) ELSE col.obs
     /\ nextBossAtScore' = IF boss THEN nextBossAtScore + 350 ELSE nextBossAtScore
     /\ orbs' = orbs3
     /\ comboRef' = ate.combo /\ lastPickupAtRef' = ate.last
     /\ chainTimesRef' = chainTimesRef
     /\ pickupTimes' = Picked(pickupTimes, Cardinality(eat))
     /\ powers' = Take(pow2, touch)
     /\ crystals' = Cull(Take(Advance(crystals), cry))
     /\ upgJump' = Min(5, upgJump + Cardinality(cry))
     /\ magnetUntilRef' = AfterTouch(pow2, touch, "magnet", mag1, MAGNET_MS)
     /\ boostUntilRef' = AfterTouch(pow2, touch, "boost", boostUntilRef, BOOST_MS)
     /\ shieldUntilRef' = AfterTouch(pow2, touch, "shield", col.shield, SHIELD_MS)
     /\ doubleUntilRef' = AfterTouch(pow2, touch, "double", doubleUntilRef, DOUBLE_MS)
     /\ riskUntilRef' = AfterTouch(pow2, touch, "risk", riskUntilRef, RISK_MS)
     /\ flyUntilRef' = AfterTouch(pow2, touch, "wings", flyUntilRef, FLIGHT_MS)
     /\ flyRowsLeftRef' = IF wings THEN 14 ELSE rows1
     /\ flySpawnCooldownRef' = IF wings THEN clock + 1500 ELSE cd1
     /\ invincibleUntilRef' = col.inv
     /\ timeWarpUntilRef' = col.warp
     /\ livesRef' = col.livesRef
     /\ lives' = Hearts(col.lives, Cardinality({i \in touch : pow2[i].kind = "heart"}))
     /\ IF threw THEN frameCatch(col.dead, score1) ELSE frameEnd(col.dead, score1)
     /\ frameKeeps

(* the same, with the kind spawnPower gives the power-up of this frame *)
frameTry(hit, eat, touch, cry, near, draw, gap, threw) ==
  \E kind \in SpawnKinds :
    frameKind(hit, eat, touch, cry, near, draw, gap, threw, kind)

(* one simulated frame of part_004:1110-1637 *)
frame(hit, eat, touch, cry, near, draw, gap) ==
  frameTry(hit, eat, touch, cry, near, draw, gap, FALSE)

(* the rAF callback of part_004 *)
animate ==
  /\ revision = "components"
  /\ rafRef /\ rafAt < IntervalStart
  /\ IF pausedRef THEN pausedCallback
     ELSE /\ t < MaxT
          /\ \E hit \in SUBSET Reach(obstacles), eat \in SUBSET Reach(orbs),
                touch \in SUBSET Reach(powers), cry \in SUBSET Reach(crystals),
                draw \in (IF Len(powers) < MaxPowers THEN BOOLEAN ELSE {FALSE}) :
               \E near \in (IF hit = {} THEN {FALSE} ELSE BOOLEAN) :
                 /\ (~(clock < flyUntilRef) /\ wasFlyingRef
                       => \A i \in eat : ~orbs[i].sky)
                 /\ frame(hit, eat, touch, cry, near, draw, 0)
                 /\ UNCHANGED twinObstacles

(* one callback of src/components/Runner3D.tsx past the paused check, 834-1174:
   no lives, no flight; the collision loop runs before the orb pickups; the
   draw at the end throws or not *)
frameSrcTry(hit, eat, touch, cry, near, draw, kind, cdraw, gap, threw) ==
  LET ph == Physics(FALSE)
      obs1 == Cull(Advance(obstacles))
      obs2 == SpawnMore(obs1, gap)
      orbs1 == Cull(Take(Advance(orbs), eat))
      orbs2 == IF ActiveCount(Cull(Advance(orbs))) < Min(12, MaxOrbs)
               THEN push(orbs1, OrbEntity(ContactZ - 1, FALSE)) ELSE orbs1
      pow1 == Cull(Advance(powers))
      pow2 == IF ActiveCount(pow1) < 4 /\ draw
              THEN push(pow1, PowerEntity(ContactZ - 1, kind)) ELSE pow1
      cry1 == Cull(Take(Advance(crystals), cry))
      cry2 == IF ActiveCount(cry1) < 6 /\ cdraw
              THEN push(cry1, Entity(ContactZ - 1)) ELSE cry1
      warp2 == IF near /\ clock > timeWarpUntilRef THEN clock + 700
               ELSE timeWarpUntilRef
      col == CollideSrc(1, hit, [obs |-> obs2, shield |-> shieldUntilRef, dead |-> FALSE])
      ate == EatOrbs([combo |-> comboRef, last |-> lastPickupAtRef, score |-> localScore,
                      chain |-> chainTimesRef, boost |-> boostUntilRef],
                     Cardinality(eat))
      score1 == IF ~col.dead THEN Max(ate.score, Baseline(t + 1)) ELSE ate.score
  IN /\ t' = t + 1
     /\ overlap' = hit
     /\ lastFrameTime' = clock
     /\ dt' = Max(1, clock - lastFrameTime)
     /\ x' = LaneTween(x, lanes(laneIndex), Max(1, clock - lastFrameTime))
     /\ y' = ph.y /\ vy' = ph.vy /\ sliding' = ph.sliding
     /\ slideEndedAt' = ph.slideEndedAt
     /\ lastGroundedAt' = ph.lastGroundedAt
     /\ wasGrounded' = ph.wasGrounded
     /\ jumpBufferUntil' = ph.jumpBufferUntil
     /\ jumpsSinceAir' = ph.jumpsSinceAir
     /\ obstacles' = col.obs
     /\ orbs' = orbs2
     /\ comboRef' = ate.combo /\ lastPickupAtRef' = ate.last
     /\ chainTimesRef' = ate.chain
     /\ pickupTimes' = ate.chain
     /\ powers' = Take(pow2, touch)
     /\ crystals' = cry2
     /\ upgJump' = Min(5, upgJump + Cardinality(cry))
     /\ magnetUntilRef' = AfterTouch(pow2, touch, "magnet", magnetUntilRef, MAGNET_MS)
     /\ boostUntilRef' = AfterTouch(pow2, touch, "boost", ate.boost, BOOST_MS)
     /\ shieldUntilRef' = AfterTouch(pow2, touch, "shield", col.shield, SHIELD_MS)
     /\ doubleUntilRef' = AfterTouch(pow2, touch, "double", doubleUntilRef, DOUBLE_MS)
     /\ timeWarpUntilRef' = warp2
     /\ IF threw THEN frameEscape(col.dead, score1) ELSE frameEnd(col.dead, score1)
     /\ frameKeeps
     /\ UNCHANGED <<lives, livesRef, riskUntilRef, flyUntilRef, invincibleUntilRef,
                    flyRefs, nextBossAtScore>>

(* one simulated frame of src/components/Runner3D.tsx:834-1174 *)
frameSrc(hit, eat, touch, cry, near, draw, kind, cdraw, gap) ==
  frameSrcTry(hit, eat, touch, cry, near, draw, kind, cdraw, gap, FALSE)

(* the rAF callback of src/components/Runner3D.tsx; if (paused) reads the paused
   that startGame captured *)
animateSrc ==
  /\ revision = "src"
  /\ rafRef /\ rafAt < IntervalStart
  /\ IF closPaused THEN pausedCallback
     ELSE /\ t < MaxT
          /\ \E hit \in SUBSET Reach(obstacles), eat \in SUBSET Reach(orbs),
                touch \in SUBSET Reach(powers), cry \in SUBSET Reach(crystals),
                draw \in (IF Len(powers) < MaxPowers THEN BOOLEAN ELSE {FALSE}),
                cdraw \in (IF Len(crystals) < MaxCrystals THEN BOOLEAN ELSE {FALSE}) :
               \E near \in (IF hit = {} THEN {FALSE} ELSE BOOLEAN),
                  kind \in (IF draw THEN SrcKinds ELSE {"magnet"}) :
                 /\ frameSrc(hit, eat, touch, cry, near, draw, kind, cdraw, 0)
                 /\ UNCHANGED twinObstacles

(* a frame of part_004 in which nothing on the track touches the player and no
   power is drawn *)
animateClear ==
  /\ revision = "components"
  /\ rafRef /\ rafAt < IntervalStart
  /\ IF pausedRef THEN pausedCallback
     ELSE /\ t < MaxT
          /\ frame({}, {}, {}, {}, FALSE, FALSE, 0)
          /\ UNCHANGED twinObstacles

(* the same of src/components/Runner3D.tsx *)
animateSrcClear ==
  /\ revision = "src"
  /\ rafRef /\ rafAt < IntervalStart
  /\ IF closPaused THEN pausedCallback
     ELSE /\ t < MaxT
          /\ frameSrc({}, {}, {}, {}, FALSE, FALSE, "magnet", FALSE, 0)
          /\ UNCHANGED twinObstacles

(* a frame of part_004 in which the track offers power-ups only *)
animatePowers ==
  /\ revision = "components"
  /\ rafRef /\ rafAt < IntervalStart
  /\ IF pausedRef THEN pausedCallback
     ELSE /\ t < MaxT
          /\ \E touch \in SUBSET Reach(powers),
                draw \in (IF Len(powers) < MaxPowers THEN BOOLEAN ELSE {FALSE}) :
               /\ frame({}, {}, touch, {}, FALSE, draw, 0)
               /\ UNCHANGED twinObstacles

(* the same of src/components/Runner3D.tsx *)
animateSrcPowers ==
  /\ revision = "src"
  /\ rafRef /\ rafAt < IntervalStart
  /\ IF closPaused THEN pausedCallback
     ELSE /\ t < MaxT
          /\ \E touch \in SUBSET Reach(powers),
                draw \in (IF Len(powers) < MaxPowers THEN BOOLEAN ELSE {FALSE}) :
               \E kind \in (IF draw THEN SrcKinds ELSE {"magnet"}) :
                 /\ frameSrc({}, {}, touch, {}, FALSE, draw, kind, FALSE, 0)
                 /\ UNCHANGED twinObstacles

(* the same frame of the second play: its own Math.random() *)
twinFrame(gap) ==
  twinObstacles' = SpawnMore(Cull(Advance(twinObstacles)), gap)

(* a frame of part_004 on a track that does not touch the player, in both plays;
   each play has its own Math.random() *)
animateSeeded ==
  /\ revision = "components"
  /\ rafRef /\ rafAt < IntervalStart
  /\ IF pausedRef THEN pausedCallback
     ELSE /\ t < MaxT
          /\ \E gap \in SpawnGaps, twinGap \in SpawnGaps :
               /\ frame({}, {}, {}, {}, FALSE, FALSE, gap)
               /\ twinFrame(twinGap)

(* the same of src/components/Runner3D.tsx: both plays draw from rand(), the
   stream of the seed *)
animateSrcSeeded ==
  /\ revision = "src"
  /\ rafRef /\ rafAt < IntervalStart
  /\ IF closPaused THEN pausedCallback
     ELSE /\ t < MaxT
          /\ \E gap \in SpawnGaps :
               /\ frameSrc({}, {}, {}, {}, FALSE, FALSE, "magnet", FALSE, gap)
               /\ twinFrame(gap)

(* performance.now() reaches the next frame interval in a game of up to MaxTicks
   frames; the game is started when the page has loaded and the timeouts of its
   countdown fire when they are due *)
TickLong ==
  /\ IF running THEN t < MaxTicks
     ELSE /\ countdown # NoCountdown
          /\ clock < countdownAt + 1000
          /\ IntervalStart + frameMs <= countdownSeconds * 1000
  /\ ~CommitPending
  /\ rafRef => rafAt = IntervalStart
  /\ clock' = IntervalStart + frameMs
  /\ UNCHANGED <<boardVars, revision, frameMs, uiVars, seenVars, flagRefs, timerRefs, comboRefs, flyRefs,
                 dashCooldownRef, closVars, schedVars, pausedAt, loopVars, playerVars,
                 lastY, poolVars>>

(* a frame of part_004 of a long game: coins lie in the player's way in the
   first MaxT frames, nothing after them *)
animateLong ==
  /\ revision = "components"
  /\ rafRef /\ rafAt < IntervalStart
  /\ IF pausedRef THEN pausedCallback
     ELSE /\ t < MaxTicks
          /\ \E eat \in (IF t < MaxT THEN SUBSET Reach(orbs) ELSE {{}}) :
               /\ frame({}, eat, {}, {}, FALSE, FALSE, 0)
               /\ UNCHANGED twinObstacles

(* the same of src/components/Runner3D.tsx *)
animateSrcLong ==
  /\ revision = "src"
  /\ rafRef /\ rafAt < IntervalStart
  /\ IF closPaused THEN pausedCallback
     ELSE /\ t < MaxTicks
          /\ \E eat \in (IF t < MaxT THEN SUBSET Reach(orbs) ELSE {{}}) :
               /\ frameSrc({}, eat, {}, {}, FALSE, FALSE, "magnet", FALSE, 0)
               /\ UNCHANGED twinObstacles

(* a frame of part_004 on a track of coins: the coin in the player's cell is
   collected or missed *)
animateCoins ==
  /\ revision = "components"
  /\ rafRef /\ rafAt < IntervalStart
  /\ IF pausedRef THEN pausedCallback
     ELSE /\ t < MaxCoinFrames
          /\ \E eat \in SUBSET Reach(orbs) :
               /\ frame({}, eat, {}, {}, FALSE, FALSE, 0)
               /\ UNCHANGED twinObstacles

(* the same of src/components/Runner3D.tsx *)
animateSrcCoins ==
  /\ revision = "src"
  /\ rafRef /\ rafAt < IntervalStart
  /\ IF closPaused THEN pausedCallback
     ELSE /\ t < MaxCoinFrames
          /\ \E eat \in SUBSET Reach(orbs) :
               /\ frameSrc({}, eat, {}, {}, FALSE, FALSE, "magnet", FALSE, 0)
               /\ UNCHANGED twinObstacles

(* a frame of part_004 on a track with obstacles and wings: the player runs into
   the obstacle of its cell or not, touches the power-up of its cell or not *)
animateFlight ==
  /\ revision = "components"
  /\ rafRef /\ rafAt < IntervalStart
  /\ IF pausedRef THEN pausedCallback
     ELSE /\ t < MaxFlightFrames
          /\ \E hit \in SUBSET Reach(obstacles), touch \in SUBSET Reach(powers),
                draw \in (IF Len(powers) < MaxPowers THEN BOOLEAN ELSE {FALSE}) :
               /\ frame(hit, {}, touch, {}, FALSE, draw, 0)
               /\ UNCHANGED twinObstacles

(* the same of src/components/Runner3D.tsx, which has no wings *)
animateSrcFlight ==
  /\ revision = "src"
  /\ rafRef /\ rafAt < IntervalStart
  /\ IF closPaused THEN pausedCallback
     ELSE /\ t < MaxFlightFrames
          /\ \E hit \in SUBSET Reach(obstacles), touch \in SUBSET Reach(powers),
                draw \in (IF Len(powers) < MaxPowers THEN BOOLEAN ELSE {FALSE}),
                kind \in SrcKinds :
               /\ frameSrc(hit, {}, touch, {}, FALSE, draw, kind, FALSE, 0)
               /\ UNCHANGED twinObstacles

(* time also passes on the game-over screen *)
TickOver ==
  /\ IntervalStart + frameMs <= MaxClock
  /\ (running \/ countdown # NoCountdown \/ dead)
  /\ ~CommitPending
  /\ rafRef => rafAt = IntervalStart
  /\ clock' = IntervalStart + frameMs
  /\ UNCHANGED <<boardVars, revision, frameMs, uiVars, seenVars, flagRefs, timerRefs, comboRefs, flyRefs,
                 dashCooldownRef, closVars, schedVars, pausedAt, loopVars, playerVars,
                 lastY, poolVars>>

(* a frame of part_004 on a track of obstacles and coins *)
animateOver ==
  /\ revision = "components"
  /\ rafRef /\ rafAt < IntervalStart
  /\ IF pausedRef THEN pausedCallback
     ELSE /\ t < MaxT
          /\ \E hit \in SUBSET Reach(obstacles), eat \in SUBSET Reach(orbs) :
               /\ frame(hit, eat, {}, {}, FALSE, FALSE, 0)
               /\ UNCHANGED twinObstacles

(* the same of src/components/Runner3D.tsx *)
animateSrcOver ==
  /\ revision = "src"
  /\ rafRef /\ rafAt < IntervalStart
  /\ IF closPaused THEN pausedCallback
     ELSE /\ t < MaxT
          /\ \E hit \in SUBSET Reach(obstacles), eat \in SUBSET Reach(orbs) :
               /\ frameSrc(hit, eat, {}, {}, FALSE, FALSE, "magnet", FALSE, 0)
               /\ UNCHANGED twinObstacles

(* a frame of part_004 on a track of coins whose draw may throw *)
animateDraw ==
  /\ revision = "components"
  /\ rafRef /\ rafAt < IntervalStart
  /\ IF pausedRef THEN pausedCallback
     ELSE /\ t < MaxT
          /\ \E eat \in SUBSET Reach(orbs), threw \in BOOLEAN :
               /\ frameTry({}, eat, {}, {}, FALSE, FALSE, 0, threw)
               /\ UNCHANGED twinObstacles

(* the same of src/components/Runner3D.tsx *)
animateSrcDraw ==
  /\ revision = "src"
  /\ rafRef /\ rafAt < IntervalStart
  /\ IF closPaused THEN pausedCallback
     ELSE /\ t < MaxT
          /\ \E eat \in SUBSET Reach(orbs), threw \in BOOLEAN :
               /\ frameSrcTry({}, eat, {}, {}, FALSE, FALSE, "magnet", FALSE, 0, threw)
               /\ UNCHANGED twinObstacles

(* a frame of part_004 on a track of obstacles, which come back one or two
   cells away: the player runs into those of its cell or not *)
animateHits ==
  /\ revision = "components"
  /\ rafRef /\ rafAt < IntervalStart
  /\ IF pausedRef THEN pausedCallback
     ELSE /\ t < MaxHitFrames
          /\ \E hit \in SUBSET Reach(obstacles), gap \in SpawnGaps :
               /\ frame(hit, {}, {}, {}, FALSE, FALSE, gap)
               /\ UNCHANGED twinObstacles

(* the same of src/components/Runner3D.tsx *)
animateSrcHits ==
  /\ revision = "src"
  /\ rafRef /\ rafAt < IntervalStart
  /\ IF closPaused THEN pausedCallback
     ELSE /\ t < MaxHitFrames
          /\ \E hit \in SUBSET Reach(obstacles), gap \in SpawnGaps :
               /\ frameSrc(hit, {}, {}, {}, FALSE, FALSE, "magnet", FALSE, gap)
               /\ UNCHANGED twinObstacles

(* a frame of part_004 on a track of obstacles and power-ups *)
animateShield ==
  /\ revision = "components"
  /\ rafRef /\ rafAt < IntervalStart
  /\ IF pausedRef THEN pausedCallback
     ELSE /\ t < MaxShieldFrames
          /\ \E hit \in SUBSET Reach(obstacles), touch \in SUBSET Reach(powers),
                draw \in (IF Len(powers) < 1 THEN BOOLEAN ELSE {FALSE}),
                gap \in SpawnGaps :
               /\ frame(hit, {}, touch, {}, FALSE, draw, gap)
               /\ UNCHANGED twinObstacles

(* the same of src/components/Runner3D.tsx, where the power-up is a shield *)
animateSrcShield ==
  /\ revision = "src"
  /\ rafRef /\ rafAt < IntervalStart
  /\ IF closPaused THEN pausedCallback
     ELSE /\ t < MaxShieldFrames
          /\ \E hit \in SUBSET Reach(obstacles), touch \in SUBSET Reach(powers),
                draw \in (IF Len(powers) < 1 THEN BOOLEAN ELSE {FALSE}),
                gap \in SpawnGaps :
               /\ frameSrc(hit, {}, touch, {}, FALSE, draw, "shield", FALSE, gap)
               /\ UNCHANGED twinObstacles

(* a frame of part_004 on a clear track, for the lane changes *)
animateLane ==
  /\ revision = "components"
  /\ rafRef /\ rafAt < IntervalStart
  /\ IF pausedRef THEN pausedCallback
     ELSE /\ t < MaxLaneFrames
          /\ frame({}, {}, {}, {}, FALSE, FALSE, 0)
          /\ UNCHANGED twinObstacles

(* the same of src/components/Runner3D.tsx *)
animateSrcLane ==
  /\ revision = "src"
  /\ rafRef /\ rafAt < IntervalStart
  /\ IF closPaused THEN pausedCallback
     ELSE /\ t < MaxLaneFrames
          /\ frameSrc({}, {}, {}, {}, FALSE, FALSE, "magnet", FALSE, 0)
          /\ UNCHANGED twinObstacles

(* ------------------------------------------------------------------ *)
(* The track: the component with everything the track can do to the    *)
(* player, and Start and Retry                                         *)
(* ------------------------------------------------------------------ *)
Next ==
  \/ Tick
  \/ Commit
  \/ handleStart
  \/ handleRetry
  \/ handleStartSrc
  \/ handleRetrySrc
  \/ countdownTimeout
  \/ countdownEffect
  \/ animate
  \/ animateSrc

Spec == Init /\ [][Next]_vars

(* ------------------------------------------------------------------ *)
(* The player: the component with its keyboard, pointer, touch, pause  *)
(* and visibility events on a clear track, and time within a frame     *)
(* interval                                                            *)
(* ------------------------------------------------------------------ *)
NextInput ==
  \/ Tick
  \/ TickFine
  \/ Commit
  \/ handleStart
  \/ handleStartSrc
  \/ countdownTimeout
  \/ countdownEffect
  \/ pauseChip
  \/ resumeButton
  \/ onVis
  \/ onKeyJump
  \/ onKeyDash
  \/ onKeyLeft
  \/ onKeyRight
  \/ onKeySlide
  \/ onKeyEscape
  \/ onPointer
  \/ onTouchStart
  \/ onTouchMove
  \/ animateClear
  \/ animateSrcClear

SpecInput == Init /\ [][NextInput]_vars

(* ------------------------------------------------------------------ *)
(* The power-ups of the track with the Pause / Resume chip and the     *)
(* Resume button: timed effects across a pause                         *)
(* ------------------------------------------------------------------ *)
NextPause ==
  \/ Tick
  \/ Commit
  \/ handleStart
  \/ handleStartSrc
  \/ countdownTimeout
  \/ countdownEffect
  \/ pauseChip
  \/ resumeButton
  \/ animatePowers
  \/ animateSrcPowers

SpecPause == Init /\ [][NextPause]_vars

(* ------------------------------------------------------------------ *)
(* Two plays of one seed with no input events and the same frame      *)
(* times, side by side                                                 *)
(* ------------------------------------------------------------------ *)
NextSeed ==
  \/ Tick
  \/ Commit
  \/ handleStart
  \/ handleStartSrc
  \/ countdownTimeout
  \/ countdownEffect
  \/ animateSeeded
  \/ animateSrcSeeded

SpecSeed == Init /\ [][NextSeed]_vars

(* ------------------------------------------------------------------ *)
(* A long game with no input events: the distance score                *)
(* ------------------------------------------------------------------ *)
NextLong ==
  \/ TickLong
  \/ Commit
  \/ handleStart
  \/ handleStartSrc
  \/ countdownTimeout
  \/ countdownEffect
  \/ animateLong
  \/ animateSrcLong

SpecLong == Init /\ [][NextLong]_vars

(* ------------------------------------------------------------------ *)
(* A game on a track of coins: combo and chain                         *)
(* ------------------------------------------------------------------ *)
NextCoins ==
  \/ TickLong
  \/ Commit
  \/ handleStart
  \/ handleStartSrc
  \/ countdownTimeout
  \/ countdownEffect
  \/ animateCoins
  \/ animateSrcCoins

(* on either display *)
InitCoins == \E ms \in {FastStepMs, StepMs} : InitAt(ms)

SpecCoins == InitCoins /\ [][NextCoins]_vars

(* ------------------------------------------------------------------ *)
(* A game on a track with obstacles and wings: the flight              *)
(* ------------------------------------------------------------------ *)
NextFlight ==
  \/ TickLong
  \/ Commit
  \/ handleStart
  \/ handleStartSrc
  \/ countdownTimeout
  \/ countdownEffect
  \/ animateFlight
  \/ animateSrcFlight

SpecFlight == Init /\ [][NextFlight]_vars

(* ------------------------------------------------------------------ *)
(* Games that end, and what follows on the game-over screen            *)
(* ------------------------------------------------------------------ *)
NextOver ==
  \/ TickOver
  \/ Commit
  \/ handleStart
  \/ handleRetry
  \/ handleStartSrc
  \/ handleRetrySrc
  \/ countdownTimeout
  \/ countdownEffect
  \/ animateOver
  \/ animateSrcOver

SpecOver == Init /\ [][NextOver]_vars

(* ------------------------------------------------------------------ *)
(* Frames whose draw throws                                            *)
(* ------------------------------------------------------------------ *)
NextDraw ==
  \/ Tick
  \/ Commit
  \/ handleStart
  \/ handleStartSrc
  \/ countdownTimeout
  \/ countdownEffect
  \/ resumeButton
  \/ animateDraw
  \/ animateSrcDraw

SpecDraw == Init /\ [][NextDraw]_vars

(* ------------------------------------------------------------------ *)
(* A game on a track of obstacles, on either display: hits and the     *)
(* invincibility window                                                *)
(* ------------------------------------------------------------------ *)
NextHits ==
  \/ TickLong
  \/ Commit
  \/ handleStart
  \/ handleStartSrc
  \/ countdownTimeout
  \/ countdownEffect
  \/ animateHits
  \/ animateSrcHits

SpecHits == InitCoins /\ [][NextHits]_vars

(* ------------------------------------------------------------------ *)
(* A game on a track of obstacles and one shield, on either display    *)
(* ------------------------------------------------------------------ *)
NextShield ==
  \/ TickLong
  \/ Commit
  \/ handleStart
  \/ handleStartSrc
  \/ countdownTimeout
  \/ countdownEffect
  \/ animateShield
  \/ animateSrcShield

SpecShield == InitCoins /\ [][NextShield]_vars

(* ------------------------------------------------------------------ *)
(* Lane changes and dashes on a clear track, on either display         *)
(* ------------------------------------------------------------------ *)
NextLane ==
  \/ TickLong
  \/ Commit
  \/ handleStart
  \/ handleStartSrc
  \/ countdownTimeout
  \/ countdownEffect
  \/ onKeyLeft
  \/ onKeyRight
  \/ onKeyDash
  \/ animateLane
  \/ animateSrcLane

SpecLane == InitCoins /\ [][NextLane]_vars

(* ------------------------------------------------------------------ *)
(* Properties                                                          *)
(* ------------------------------------------------------------------ *)

(* ------------------------------------------------------------------ *)
(* The leaderboard route: POST of src/app/api/leaderboard/route.ts      *)
(* ------------------------------------------------------------------ *)
gameVars == <<revision, frameMs, clock, uiVars, seenVars, flagRefs, timerRefs, comboRefs,
              flyRefs, dashCooldownRef, closVars, schedVars, pausedAt, loopVars,
              playerVars, lastY, poolVars>>

(* const next = prev != null ? Math.max(Number(prev), score) : score *)
NextScore(prev, sc) == IF prev # NoScore THEN Max(prev, sc) ELSE sc

(* a request arrives with a body whose score is a number: the handler runs up
   to await redis.zscore(key, member) *)
POST ==
  \E r \in Posts, sc \in Scores :
    /\ posts[r].pc = "idle"
    /\ posts' = [posts EXCEPT ![r] = [@ EXCEPT !.pc = "zscore", !.score = sc]]
    /\ UNCHANGED <<stored, gameVars>>

(* a request whose body is not JSON or lacks game, member or a number score:
   400, nothing is read or written *)
POSTBad ==
  \E r \in Posts :
    /\ posts[r].pc = "idle"
    /\ posts' = [posts EXCEPT ![r] = [@ EXCEPT !.pc = "bad"]]
    /\ UNCHANGED <<stored, gameVars>>

(* redis.zscore answers: prev, next, and the test
   if (prev == null || next !== Number(prev)) *)
zscore ==
  \E r \in Posts :
    /\ posts[r].pc = "zscore"
    /\ LET nx == NextScore(stored, posts[r].score)
       IN posts' = [posts EXCEPT ![r] =
                      [@ EXCEPT !.prev = stored, !.next = nx,
                                !.pc = IF stored = NoScore \/ nx # stored
                                       THEN "zadd" ELSE "done"]]
    /\ UNCHANGED <<stored, gameVars>>

(* await redis.zadd(key, { score: next, member }) is carried out, and the
   handler returns ok *)
zadd ==
  \E r \in Posts :
    /\ posts[r].pc = "zadd"
    /\ stored' = posts[r].next
    /\ posts' = [posts EXCEPT ![r] = [@ EXCEPT !.pc = "done"]]
    /\ UNCHANGED gameVars

NextBoard ==
  \/ POST
  \/ POSTBad
  \/ zscore
  \/ zadd

SpecBoard == Init /\ [][NextBoard]_vars

(* C1: within one run, while the run is not terminal, the run's score
   (localScore) never goes down from one step to the next, whatever the frames
   pick up or hit *)
C1_ScoreMonotonic ==
  [][(runningSeen /\ runningSeen' /\ ~localDead') => localScore' >= localScore]_vars

(* C2: in every reachable state the displayed lives and the livesRef that the
   frame loop uses are integers in 0..3 *)
C2_LivesInRange ==
  /\ lives \in 0..MAX_LIVES
  /\ livesRef \in 0..MAX_LIVES

(* a second game in which a hit found livesRef at 0 *)
C2_Witness ==
  /\ runs = 2
  /\ localDead
  /\ lives = 0 /\ livesRef = 0
  /\ invincibleUntilRef = clock + 1000

(* C3: no simulated frame of any game, a game started with Start or Retry after
   a death included, executes with lives equal to 0 *)
C3_NoFrameAtZeroLives ==
  [][t' = t + 1 => (lives > 0 /\ livesRef > 0)]_vars

(* C4: in the frame in which a hit takes the lives from 1 to 0 the run becomes
   terminal, and the final score reported is the score at the end of the
   preceding frame *)
C4_FinalScoreIsPrevious ==
  [][(t' = t + 1 /\ livesRef = 1 /\ livesRef' = 0)
       => (localDead' /\ dead' /\ score' = localScore)]_vars

(* C5: within one game, a coin, power-up or crystal that is inactive never
   becomes active again and is not credited again; none is credited more than
   once *)
C5_NoDoubleConsumption ==
  [][runs' = runs =>
       /\ \A i \in DOMAIN orbs :
            ~orbs[i].active =>
              /\ i \in DOMAIN orbs'
              /\ ~orbs'[i].active /\ orbs'[i].got = orbs[i].got
       /\ \A i \in DOMAIN powers :
            ~powers[i].active =>
              /\ i \in DOMAIN powers'
              /\ ~powers'[i].active /\ powers'[i].got = powers[i].got
       /\ \A i \in DOMAIN crystals :
            ~crystals[i].active =>
              /\ i \in DOMAIN crystals'
              /\ ~crystals'[i].active /\ crystals'[i].got = crystals[i].got
       /\ \A i \in DOMAIN orbs' : orbs'[i].got <= 1
       /\ \A i \in DOMAIN powers' : powers'[i].got <= 1
       /\ \A i \in DOMAIN crystals' : crystals'[i].got <= 1]_vars

(* the first coin and the first crystal were picked up in the second frame, a
   power-up was picked up, another coin was spawned, and the third frame has run *)
C5_Witness ==
  /\ t = 3
  /\ Len(orbs) >= 2 /\ ~orbs[1].active /\ orbs[1].got = 1
  /\ \E i \in DOMAIN powers : ~powers[i].active /\ powers[i].got = 1
  /\ Len(crystals) >= 1 /\ ~crystals[1].active /\ crystals[1].got = 1

(* C6: when a frame starts with the shield active, the player neither flying
   nor inside the invincibility window, and the player's box overlaps one
   active obstacle in that frame, then after the frame the lives are unchanged,
   the run is not dead and that obstacle is inactive *)
C6_ShieldAbsorbs ==
  [][(/\ t' = t + 1
      /\ clock < shieldUntilRef
      /\ ~(clock < flyUntilRef)
      /\ ~(clock < invincibleUntilRef)
      /\ Cardinality(overlap') = 1)
       => (/\ lives' = lives /\ livesRef' = livesRef
           /\ ~localDead'
           /\ \A i \in overlap' : ~obstacles'[i].active)]_vars

(* the frame that has just run met one obstacle with the shield up: the shield
   is in its 400 ms tail, the obstacle is gone, the run goes on *)
C6_Witness ==
  /\ t > 0 /\ lastFrameTime = clock
  /\ Cardinality(overlap) = 1
  /\ \A i \in overlap : ~obstacles[i].active
  /\ shieldUntilRef = clock + 400
  /\ ~localDead

(* C7: with assist off and no double jump, a jump input while the player is off
   the ground sets the vertical velocity to the jump impulse if
   now - lastGroundedAt <= COYOTE_MS, and leaves the vertical velocity unchanged
   if now - lastGroundedAt > COYOTE_MS *)
C7_CoyoteWindow ==
  [][(/\ onKeyJump
      /\ inputs' = inputs + 1
      /\ ~assist /\ ~hasDouble
      /\ y > PLAYER_GROUND_Y)
       => (IF clock - lastGroundedAt <= COYOTE_MS
           THEN vy' = JUMP_STRENGTH_BASE + closUpgJump
           ELSE vy' = vy)]_vars

(* the player is in the air, exactly COYOTE_MS after the last grounded frame,
   with the full jump impulse that only a jump input gives *)
C7_Witness ==
  /\ y > PLAYER_GROUND_Y
  /\ clock - lastGroundedAt = COYOTE_MS
  /\ vy = JUMP_STRENGTH_BASE + closUpgJump
  /\ inputs >= 2

(* C8: a frame that picks up a magnet, boost, shield, double, risk or wings
   power-up sets the until of that effect to max(previous until, now + duration),
   so that a pickup never lowers it *)
C8_RefreshNotReset ==
  [][t' = t + 1 =>
       LET picked(k) == \E i \in DOMAIN powers :
                           /\ powers[i].kind = k /\ powers[i].got = 0
                           /\ powers'[i].got = 1
       IN /\ picked("magnet") => magnetUntilRef' = Max(magnetUntilRef, clock + MAGNET_MS)
          /\ picked("boost") => boostUntilRef' = Max(boostUntilRef, clock + BOOST_MS)
          /\ picked("shield") => shieldUntilRef' = Max(shieldUntilRef, clock + SHIELD_MS)
          /\ picked("double") => doubleUntilRef' = Max(doubleUntilRef, clock + DOUBLE_MS)
          /\ picked("risk") => riskUntilRef' = Max(riskUntilRef, clock + RISK_MS)
          /\ picked("wings") => flyUntilRef' = Max(flyUntilRef, clock + FLIGHT_MS)]_vars

(* a second boost was picked up in the frame that has just run, while the first
   one still had time left *)
C8_Witness ==
  /\ lastFrameTime = clock
  /\ \E i, j \in DOMAIN powers :
       /\ i < j
       /\ powers[i].kind = "boost" /\ powers[i].got = 1
       /\ powers[j].kind = "boost" /\ powers[j].got = 1
  /\ boostUntilRef = clock + BOOST_MS

(* C9: while the game is paused no simulation state changes, whatever frame
   callbacks fire and whatever keyboard, pointer or touch inputs arrive *)
C9_PauseFreezes ==
  [][(paused /\ pausedRef /\ paused' /\ pausedRef')
       => UNCHANGED <<simVars, lives, livesRef>>]_vars

(* C10: the first simulated frame after a pause does not use the paused time as
   its frame delta: its dt is no more than one frame interval *)
C10_NoPauseInDt ==
  [][(t' = t + 1 /\ skipped) => dt' <= StepMs]_vars

(* the timers of the effects: magnet, boost, shield, double, risk, flight and
   post-hit invincibility *)
EffectUntils ==
  {magnetUntilRef, boostUntilRef, shieldUntilRef, doubleUntilRef, riskUntilRef,
   flyUntilRef, invincibleUntilRef}

(* C11: an effect that was active with remaining time r when the pause took effect
   is active with the same remaining time r at the first simulated frame
   after the pause, however long the pause was *)
C11_TimersSurvivePause ==
  [][(t' = t + 1 /\ skipped)
       => \A until \in EffectUntils :
            pausedAt < until
              => (clock < until /\ until - clock = until - pausedAt)]_vars

(* C12: at the first simulated frame of every game, started by Start or by
   Retry, the state is fully reinitialized: lives 3, score 0, tick 0, combo 0,
   an empty chain buffer and every modifier timer inactive, the slow-motion
   timer included *)
C12_FullReinit ==
  [][(t = 0 /\ t' = 1)
       => (/\ lives = MAX_LIVES /\ livesRef = MAX_LIVES
           /\ score = 0 /\ localScore = 0
           /\ comboRef = 0
           /\ chainTimesRef = <<>>
           /\ \A until \in EffectUntils \cup {timeWarpUntilRef} : ~(clock < until))]_vars

(* C13: two plays started with the same fixed seed and given the same input
   events at the same frame times have spawned the same obstacles, at the same
   z, after every tick *)
C13_SeedDeterminism ==
  twinObstacles = obstacles

(* C14: at the end of every frame that does not end the game the score is at
   least floor(t * 0.05) for the t frames simulated so far, and it is exactly
   floor(t * 0.05) while no coin has been collected *)
C14_Baseline ==
  [][(t' = t + 1 /\ ~localDead')
       => (/\ localScore' >= (t' * 5) \div 100
           /\ (\A i \in DOMAIN orbs' : orbs'[i].got = 0)
                => localScore' = (t' * 5) \div 100)]_vars

(* the game without input events after 600 frames, no coin collected: score 30 *)
C14_Witness ==
  /\ t = 600 /\ lastFrameTime = clock
  /\ inputs = 0
  /\ \A i \in DOMAIN orbs : orbs[i].got = 0
  /\ ~localDead
  /\ localScore = 30

(* C15: a frame that collects one coin sets the combo counter to
   min(5, previous + 1) if now - lastPickupAt <= COMBO_WINDOW_MS and to 1 if
   now - lastPickupAt > COMBO_WINDOW_MS; the counter is always in 0..5 *)
C15_ComboWindow ==
  [][(/\ t' = t + 1
      /\ Cardinality({i \in DOMAIN orbs : orbs[i].got = 0 /\ orbs'[i].got = 1}) = 1)
       => (/\ comboRef' = IF clock - lastPickupAtRef <= COMBO_WINDOW_MS
                          THEN Min(COMBO_MAX, comboRef + 1) ELSE 1
           /\ comboRef' \in 0..COMBO_MAX)]_vars

(* C16: a coin pickup that makes the coin pickups of the last CHAIN_WINDOW_MS
   since the chain buffer was last cleared reach CHAIN_NEEDED sets, in the same
   frame, the boost timer to at least now + CHAIN_BOOST_MS and empties the
   chain buffer *)
C16_ChainBoost ==
  [][(/\ t' = t + 1
      /\ Cardinality({i \in DOMAIN orbs : orbs[i].got = 0 /\ orbs'[i].got = 1}) = 1
      /\ Len(SelectSeq(pickupTimes, LAMBDA ts : clock - ts <= CHAIN_WINDOW_MS)) + 1
           >= CHAIN_NEEDED)
       => (/\ boostUntilRef' >= clock + CHAIN_BOOST_MS
           /\ chainTimesRef' = <<>>)]_vars

(* C17: in the frame in which the player touches wings the player is flying at
   the end of that frame (now < flyUntil), and in every frame from that one
   until the flight timer has expired an obstacle overlap neither takes a life
   nor deactivates the obstacle *)
C17_FlightIgnoresObstacles ==
  [][(t' = t + 1 /\ clock < flyUntilRef')
       => (/\ livesRef' = livesRef
           /\ lives' >= lives
           /\ ~localDead'
           /\ \A i \in overlap' : obstacles'[i].active)]_vars

(* C18: the first frame with now >= flyUntil after a flight leaves the player
   on the ground with no vertical velocity *)
C18_FlightEndsGrounded ==
  [][(t' = t + 1 /\ wasFlyingRef /\ ~(clock < flyUntilRef))
       => (y' = PLAYER_GROUND_Y /\ vy' = 0)]_vars

(* C19: while a run is terminal (dead) its reported score is the run's score at
   death, a non-negative integer, and unless a new run is started (Start or
   Retry clears dead) no frame is simulated and the reported score and the
   run's score do not change *)
C19_TerminalIsFinal ==
  [][dead => (/\ score = localScore
              /\ score \in Nat
              /\ localDead
              /\ (~dead' \/ (/\ t' = t
                              /\ score' = score
                              /\ localScore' = localScore)))]_vars

(* a game over with a score above the baseline, some time after the death frame
   and after the commit that ran the cleanup *)
C19_Witness ==
  /\ dead /\ ~running /\ ~runningSeen
  /\ ~rafRef
  /\ score = localScore /\ score > 0
  /\ clock > lastFrameTime

(* C20: a frame callback that throws leaves the frame loop scheduled, and the
   simulation is where the last completed frame left it: tick count, score,
   player position and velocity, timers, combo and the track keep their values *)
C20_FailedFrameRolledBack ==
  [][(thrown' /\ rafAt' # rafAt)
       => (/\ rafRef'
           /\ t' = t
           /\ localScore' = localScore
           /\ lastFrameTime' = lastFrameTime
           /\ UNCHANGED <<playerVars, timerRefs, comboRef, lastPickupAtRef,
                          chainTimesRef, obstacles, orbs, powers, crystals>>)]_vars

(* C21: in part_004 a frame in which the player overlaps an obstacle, with no
   flight, no invincibility and no shield and a life to lose, takes exactly one
   life and opens the invincibility window until now + 1000; a frame that starts
   inside the window takes no life and deactivates no overlapped obstacle; no
   frame takes more than one life *)
C21_OneLifePerHit ==
  [][(t' = t + 1 /\ revision = "components")
       => (/\ (/\ overlap' # {}
               /\ ~(clock < flyUntilRef)
               /\ ~(clock < invincibleUntilRef)
               /\ ~(clock < shieldUntilRef)
               /\ livesRef >= 1)
                => (/\ livesRef' = livesRef - 1
                    /\ invincibleUntilRef' = clock + 1000)
           /\ clock < invincibleUntilRef
                => (/\ livesRef' = livesRef
                    /\ \A i \in overlap' : obstacles'[i].active)
           /\ livesRef' >= livesRef - 1)]_vars

(* the frame that has just run overlapped two obstacles at once and took one
   life, and an earlier frame overlapped an obstacle inside the window *)
C21_Witness ==
  /\ revision = "components"
  /\ t > 0 /\ lastFrameTime = clock
  /\ Cardinality(overlap) = 2
  /\ invincibleUntilRef = clock + 1000
  /\ livesRef = 1
  /\ frameMs = FastStepMs

(* the obstacles of this game that the shield branch has deactivated: an
   obstacle goes inactive in the player's cell there, and past it at the cull *)
ShieldAbsorbed == {i \in DOMAIN obstacles :
                     ~obstacles[i].active /\ obstacles[i].z = ContactZ}

(* the shields picked up in this game *)
ShieldPickups == {i \in DOMAIN powers : powers[i].kind = "shield" /\ powers[i].got > 0}

(* C22: a shield absorbs exactly one hit: the shield branch of the collision
   loop has deactivated at most as many obstacles as shields were picked up,
   one per pickup, however many frames ran and obstacles overlapped *)
C22_ShieldAbsorbsOnce ==
  Cardinality(ShieldAbsorbed) <= Cardinality(ShieldPickups)

(* C24: a buffered jump input that is older than JUMP_BUFFER_MS when a frame
   finds the player on the ground produces no jump: the player stays on the
   ground with no vertical velocity *)
C24_StaleBufferIgnored ==
  [][(/\ t' = t + 1
      /\ grounded
      /\ jumpBufferUntil # 0
      /\ clock > jumpBufferUntil)
       => (y' = PLAYER_GROUND_Y /\ vy' = 0)]_vars

(* C25: an input that arrives less than SLIDE_COOLDOWN_MS after the previous
   slide ended, with the player not sliding, does not start a slide *)
C25_SlideCooldown ==
  [][(/\ inputs' = inputs + 1
      /\ ~sliding
      /\ slideEndedAt > 0
      /\ clock - slideEndedAt < SLIDE_COOLDOWN_MS)
       => ~sliding']_vars

(* C26: in every simulated frame the player moves sideways by at most the
   maximum lateral speed times the frame's dt, 6.0 units per second, the snap to
   the target lane at the end of the tweening included *)
C26_LateralStepBounded ==
  [][t' = t + 1 => Abs(x' - x) <= 6 * dt']_vars

(* C27: every one of the seven power-up kinds can be produced by spawnPower:
   for each kind there is a value of the random draw for which a power-up
   of that kind is spawned *)
C27_EveryKindSpawns ==
  \A k \in PowerKinds :
    \E r \in Draws :
      (IF revision = "src" THEN spawnPowerSrc(r) ELSE spawnPower(r)) = k

(* C28: every read of the combo counter made more than COMBO_WINDOW_MS after
   the last coin pickup observes 0: a frame that late behaves as with combo 0,
   it does not extend the magnet (no power-up picked up), does not extend the
   slow motion (no obstacle near), does not lengthen a slide, and a coin it
   collects counts as the first of a combo *)
C28_ComboLapses ==
  [][(t' = t + 1 /\ clock - lastPickupAtRef > COMBO_WINDOW_MS)
       => (/\ (\A i \in DOMAIN powers' : powers'[i].got = 0)
                 => magnetUntilRef' = magnetUntilRef
           /\ overlap' = {} => timeWarpUntilRef' = timeWarpUntilRef
           /\ sliding => slideDur = SLIDE_DURATION_MS
           /\ Cardinality({i \in DOMAIN orbs : orbs[i].got = 0 /\ orbs'[i].got = 1}) = 1
                 => comboRef' = 1)]_vars

(* C29: the pause input is a toggle: an Escape key press while the game is
   running pauses it, and an Escape key press while it is paused resumes it *)
C29_EscapeToggles ==
  [][(escapes' = escapes + 1 /\ running /\ ~dead)
       => (/\ ~paused => paused'
           /\ paused => ~paused')]_vars

(* the requests that have been answered ok *)
Answered == {r \in Posts : posts[r].pc = "done"}

(* no request is between its arrival and its answer *)
Quiet == \A r \in Posts : posts[r].pc \in {"idle", "bad", "done"}

(* C30: for a given game and member the stored score never decreases, and
   after any set of POST submissions, concurrent ones whose zscore and zadd
   interleave included, the stored score is the maximum score submitted *)
C30_BoardKeepsMax ==
  [][/\ stored # NoScore => stored' >= stored
     /\ (Quiet' /\ Answered' # {})
          => (/\ \E r \in Answered' : stored' = posts'[r].score
              /\ \A r \in Answered' : stored' >= posts'[r].score)]_vars

====
